---- MODULE Spec2Model ----
(***************************************************************************)
(* Model of neurokit2/emg/emg_analyze.py: the dispatcher emg_analyze(data, *)
(* sampling_rate, method) that routes a processed EMG dataset to           *)
(* emg_eventrelated or emg_intervalrelated.                                *)
(*                                                                         *)
(* One behaviour is one call.  The program counter pc names the source     *)
(* line about to execute; "done" is a normal return and "raised" is an     *)
(* exception leaving the function.  Python strings are sequences of        *)
(* one-character strings so that str.lower(), list membership and the      *)
(* substring test `"Label" in name` are computed, not assumed.             *)
(***************************************************************************)
EXTENDS Integers, Sequences, FiniteSets, TLC

VARIABLES data, sampling_rate, methodArg, method, pc, colnames, duration,
          features, result, error, calls, outcome

vars == <<data, sampling_rate, methodArg, method, pc, colnames, duration,
          features, result, error, calls, outcome>>

(***************************************************************************)
(* Bounds of the explored inputs.                                          *)
(***************************************************************************)
MaxEpochs == 2

(***************************************************************************)
(* Program constant: the duration threshold in seconds (`duration >= 10`). *)
(***************************************************************************)
Threshold == 10

(***************************************************************************)
(* Python values.  A local variable is either unbound or bound to a value. *)
(***************************************************************************)
Unbound == [bound |-> FALSE]
Bound(v) == [bound |-> TRUE, val |-> v]

NoError == [type |-> "none", detail |-> "none"]
UnboundLocalError(name) == [type |-> "UnboundLocalError", detail |-> name]
MarkerValueError == [type |-> "ValueError", detail |-> "emg_analyze(): Wrong input or method"]

NoOutcome == [kind |-> "none", value |-> "none"]

(***************************************************************************)
(* Strings.                                                                *)
(***************************************************************************)
UpperLetters == <<"A","B","C","D","E","F","G","H","I","J","K","L","M",
                  "N","O","P","Q","R","S","T","U","V","W","X","Y","Z">>
LowerLetters == <<"a","b","c","d","e","f","g","h","i","j","k","l","m",
                  "n","o","p","q","r","s","t","u","v","w","x","y","z">>

LowerChar(c) ==
    IF \E i \in 1..Len(UpperLetters) : UpperLetters[i] = c
    THEN LowerLetters[CHOOSE i \in 1..Len(UpperLetters) : UpperLetters[i] = c]
    ELSE c

LowerIdentity(s) == s
Lower(s) == [i \in 1..Len(s) |-> LowerChar(s[i])]

Contains(needle, s) ==
    \E k \in 0..(Len(s) - Len(needle)) :
        SubSeq(s, k + 1, k + Len(needle)) = needle

InList(x, list) == \E i \in 1..Len(list) : list[i] = x

(***************************************************************************)
(* The literals of the source.                                             *)
(***************************************************************************)
Label == <<"L","a","b","e","l">>

EventNames ==
    << <<"e","v","e","n","t","-","r","e","l","a","t","e","d">>,
       <<"e","v","e","n","t">>,
       <<"e","p","o","c","h">> >>

IntervalNames ==
    << <<"i","n","t","e","r","v","a","l","-","r","e","l","a","t","e","d">>,
       <<"i","n","t","e","r","v","a","l">>,
       <<"r","e","s","t","i","n","g","-","s","t","a","t","e">> >>

AutoNames == << <<"a","u","t","o">> >>

(***************************************************************************)
(* Inputs of one call.                                                     *)
(***************************************************************************)
Directives ==
    { <<"e","v","e","n","t","-","r","e","l","a","t","e","d">>,
      <<"E","v","e","n","t","-","R","e","l","a","t","e","d">>,
      <<"e","v","e","n","t">>,
      <<"E","V","E","N","T">>,
      <<"e","p","o","c","h">>,
      <<"E","p","o","c","h">>,
      <<"i","n","t","e","r","v","a","l","-","r","e","l","a","t","e","d">>,
      <<"I","N","T","E","R","V","A","L","-","R","E","L","A","T","E","D">>,
      <<"i","n","t","e","r","v","a","l">>,
      <<"I","n","t","e","r","v","a","l">>,
      <<"r","e","s","t","i","n","g","-","s","t","a","t","e">>,
      <<"R","e","s","t","i","n","g","-","S","t","a","t","e">>,
      <<"a","u","t","o">>,
      <<"A","u","t","o">>,
      <<"b","a","n","a","n","a">>,
      <<"e","v","e","n","t","s">>,
      << >> }

EMG_Amplitude == <<"E","M","G","_","A","m","p","l","i","t","u","d","e">>

ColumnLists ==
    { <<EMG_Amplitude>>,
      <<EMG_Amplitude, Label>>,
      <<EMG_Amplitude, <<"E","p","o","c","h","_","L","a","b","e","l","s">> >>,
      <<EMG_Amplitude, <<"l","a","b","e","l">> >> }

SamplingRates == {1, 2}

\* Row counts: for every sampling rate the last count under the threshold
\* and the first count that reaches it.
RowCounts ==
    { Threshold * sr - 1 : sr \in SamplingRates }
        \cup { Threshold * sr : sr \in SamplingRates }

\* A pandas DataFrame: its number of rows and its column names.
DataFrames == [kind : {"DataFrame"}, rows : RowCounts, columns : ColumnLists]

\* A dict of DataFrames, in insertion order.
Dicts == [kind : {"dict"},
          epochs : UNION { [1..n -> DataFrames] : n \in 0..MaxEpochs }]

\* Anything that is neither a dict nor a DataFrame (None, a list, an array).
OtherInputs == {[kind |-> "other"]}

DataInputs == DataFrames \cup Dicts \cup OtherInputs

\* What a downstream strategy does with its argument: return a table or raise.
StrategyOutcomes ==
    [kind : {"return"}, value : {"features_A", "features_B"}]
      \cup [kind : {"raise"}, value : {"KeyError"}]

IsDataFrame(d) == d.kind = "DataFrame"
IsDict(d) == d.kind = "dict"

Init ==
    /\ data \in DataInputs
    /\ sampling_rate \in SamplingRates
    /\ methodArg \in Directives
    /\ method = methodArg
    /\ pc = "L62"
    /\ colnames = Unbound
    /\ duration = Unbound
    /\ features = Unbound
    /\ result = Unbound
    /\ error = NoError
    /\ calls = << >>
    /\ outcome = NoOutcome

Terminal == pc \in {"done", "raised"}

\* raise: the exception leaves emg_analyze.
Raise(e) == pc' = "raised" /\ error' = e

\* Variant of Invoke that catches what the strategy raises and carries on.
InvokeSwallow(fn, nextpc) ==
    \E out \in StrategyOutcomes :
        /\ calls' = Append(calls, [fn |-> fn, arg |-> data])
        /\ outcome' = out
        /\ features' = Bound(IF out.kind = "return" THEN out.value ELSE "None")
        /\ pc' = nextpc
        /\ error' = error

\* features = fn(data): the call either returns a value, bound to features,
\* or raises, and nothing in emg_analyze catches it.
Invoke(fn, nextpc) ==
    \E out \in StrategyOutcomes :
        /\ calls' = Append(calls, [fn |-> fn, arg |-> data])
        /\ outcome' = out
        /\ IF out.kind = "return"
           THEN /\ features' = Bound(out.value)
                /\ pc' = nextpc
                /\ error' = error
           ELSE /\ Raise([type |-> out.value, detail |-> fn])
                /\ features' = features

\* method = method.lower()
LowerMethod ==
    /\ pc = "L62"
    /\ method' = Lower(method)
    /\ pc' = "L65"
    /\ UNCHANGED <<data, sampling_rate, methodArg, colnames, duration,
                   features, result, error, calls, outcome>>

(***************************************************************************)
(* Helpers of the two branches that look at the data.                      *)
(***************************************************************************)
\* `for i in data: x = f(data[i])` leaves x bound to f of the last epoch
\* visited; over an empty dict the body never runs.
LastVisitedFirst(epochs) == epochs[1]
LastVisited(epochs) == epochs[Len(epochs)]

\* len([i for i in colnames if "Label" in i]) == 0
NoMarkerFirstOnly(cols) == ~ Contains(Label, cols[1])
NoMarker(cols) == Len(SelectSeq(cols, LAMBDA name : Contains(Label, name))) = 0

\* len(x) / sampling_rate is a true division; the quotient is kept exactly,
\* as numerator and denominator.  For the row counts and rates explored the
\* float quotient compares with 10 exactly as the rational does.
Quotient(n, sr) == [num |-> n, den |-> sr]

\* duration >= 10
AtLeastStrict(q, t) == q.num > t * q.den
AtLeast(q, t) == q.num >= t * q.den

(***************************************************************************)
(* if method in ["event-related", "event", "epoch"]:  the sanity checks    *)
(* bind colnames from a dict (last epoch) or a DataFrame, or leave it      *)
(* unbound.                                                                *)
(***************************************************************************)
EventSanity ==
    /\ pc = "L65"
    /\ InList(method, EventNames)
    /\ colnames' =
         IF IsDict(data)
         THEN IF Len(data.epochs) > 0
              THEN Bound(LastVisited(data.epochs).columns)
              ELSE colnames
         ELSE IF IsDataFrame(data)
              THEN Bound(data.columns)
              ELSE colnames
    /\ pc' = "L73"
    /\ UNCHANGED <<data, sampling_rate, methodArg, method, duration,
                   features, result, error, calls, outcome>>

\* Line 73 reads colnames: unbound, the read raises UnboundLocalError;
\* without a marker column the ValueError is raised.
MarkerCheckFails ==
    /\ pc = "L73"
    /\ IF ~ colnames.bound
       THEN Raise(UnboundLocalError("colnames"))
       ELSE /\ NoMarker(colnames.val)
            /\ Raise(MarkerValueError)
    /\ UNCHANGED <<data, sampling_rate, methodArg, method, colnames, duration,
                   features, result, calls, outcome>>

\* else: features = emg_eventrelated(data)
EventRelated ==
    /\ pc = "L73"
    /\ colnames.bound
    /\ ~ NoMarker(colnames.val)
    /\ Invoke("emg_eventrelated", "L102")
    /\ UNCHANGED <<data, sampling_rate, methodArg, method, colnames, duration,
                   result>>

\* elif method in ["interval-related", "interval", "resting-state"]:
\*     features = emg_intervalrelated(data)
IntervalRelated ==
    /\ pc = "L65"
    /\ ~ InList(method, EventNames)
    /\ InList(method, IntervalNames)
    /\ Invoke("emg_intervalrelated", "L102")
    /\ UNCHANGED <<data, sampling_rate, methodArg, method, colnames, duration,
                   result>>

\* elif method in ["auto"]:  first `if isinstance(data, dict)`.
AutoDict ==
    /\ pc = "L65"
    /\ ~ InList(method, EventNames)
    /\ ~ InList(method, IntervalNames)
    /\ InList(method, AutoNames)
    /\ IF IsDict(data)
       THEN IF Len(data.epochs) = 0
            THEN /\ Raise(UnboundLocalError("duration"))
                 /\ UNCHANGED <<duration, features, calls, outcome>>
            ELSE /\ duration' = Bound(Quotient(LastVisited(data.epochs).rows,
                                               sampling_rate))
                 /\ IF AtLeast(duration'.val, Threshold)
                    THEN Invoke("emg_intervalrelated", "L95")
                    ELSE Invoke("emg_eventrelated", "L95")
       ELSE /\ pc' = "L95"
            /\ UNCHANGED <<duration, features, error, calls, outcome>>
    /\ UNCHANGED <<data, sampling_rate, methodArg, method, colnames, result>>

\* Variant of AutoDataFrame whose test accepts anything that has a len().
AutoDataFrameSized ==
    /\ pc = "L95"
    /\ IF IsDataFrame(data) \/ IsDict(data)
       THEN /\ duration' = Bound(Quotient(IF IsDict(data) THEN Len(data.epochs)
                                                          ELSE data.rows,
                                          sampling_rate))
            /\ IF AtLeast(duration'.val, Threshold)
               THEN Invoke("emg_intervalrelated", "L102")
               ELSE Invoke("emg_eventrelated", "L102")
       ELSE /\ pc' = "L102"
            /\ UNCHANGED <<duration, features, error, calls, outcome>>
    /\ UNCHANGED <<data, sampling_rate, methodArg, method, colnames, result>>

\* second `if isinstance(data, pd.DataFrame)` of the auto branch.
AutoDataFrame ==
    /\ pc = "L95"
    /\ IF IsDataFrame(data)
       THEN /\ duration' = Bound(Quotient(data.rows, sampling_rate))
            /\ IF AtLeast(duration'.val, Threshold)
               THEN Invoke("emg_intervalrelated", "L102")
               ELSE Invoke("emg_eventrelated", "L102")
       ELSE /\ pc' = "L102"
            /\ UNCHANGED <<duration, features, error, calls, outcome>>
    /\ UNCHANGED <<data, sampling_rate, methodArg, method, colnames, result>>

\* No branch of the if/elif chain matches: control reaches the return.
NoBranch ==
    /\ pc = "L65"
    /\ ~ InList(method, EventNames)
    /\ ~ InList(method, IntervalNames)
    /\ ~ InList(method, AutoNames)
    /\ pc' = "L102"
    /\ UNCHANGED <<data, sampling_rate, methodArg, method, colnames, duration,
                   features, result, error, calls, outcome>>

\* return features: reading an unbound local raises UnboundLocalError.
Return ==
    /\ pc = "L102"
    /\ IF features.bound
       THEN /\ result' = features
            /\ pc' = "done"
            /\ error' = error
       ELSE /\ Raise(UnboundLocalError("features"))
            /\ result' = result
    /\ UNCHANGED <<data, sampling_rate, methodArg, method, colnames, duration,
                   features, calls, outcome>>

Next ==
    \/ LowerMethod
    \/ EventSanity
    \/ MarkerCheckFails
    \/ EventRelated
    \/ IntervalRelated
    \/ AutoDict
    \/ AutoDataFrame
    \/ NoBranch
    \/ Return

Spec == Init /\ [][Next]_vars

\* The call is synchronous and single-threaded: a step that is enabled is
\* taken.
FairSpec == Spec /\ WF_vars(Next)

(***************************************************************************)
(* Vocabulary of the properties.  It is stated on the arguments of the     *)
(* call and does not use the operators of the model above.                 *)
(***************************************************************************)
Alphabet == << <<"A","a">>, <<"B","b">>, <<"C","c">>, <<"D","d">>, <<"E","e">>,
               <<"F","f">>, <<"G","g">>, <<"H","h">>, <<"I","i">>, <<"J","j">>,
               <<"K","k">>, <<"L","l">>, <<"M","m">>, <<"N","n">>, <<"O","o">>,
               <<"P","p">>, <<"Q","q">>, <<"R","r">>, <<"S","s">>, <<"T","t">>,
               <<"U","u">>, <<"V","v">>, <<"W","w">>, <<"X","x">>, <<"Y","y">>,
               <<"Z","z">> >>

SameLetter(a, b) ==
    \/ a = b
    \/ \E i \in 1..Len(Alphabet) : {a, b} = {Alphabet[i][1], Alphabet[i][2]}

\* s and t are equal up to the case of their letters.
CaseVariant(s, t) ==
    /\ Len(s) = Len(t)
    /\ \A i \in 1..Len(s) : SameLetter(s[i], t[i])

EventWords ==
    { <<"e","v","e","n","t","-","r","e","l","a","t","e","d">>,
      <<"e","v","e","n","t">>,
      <<"e","p","o","c","h">> }

IntervalWords ==
    { <<"i","n","t","e","r","v","a","l","-","r","e","l","a","t","e","d">>,
      <<"i","n","t","e","r","v","a","l">>,
      <<"r","e","s","t","i","n","g","-","s","t","a","t","e">> }

AutoWords == { <<"a","u","t","o">> }

EventDirective == \E w \in EventWords : CaseVariant(methodArg, w)
IntervalDirective == \E w \in IntervalWords : CaseVariant(methodArg, w)
AutoDirective == \E w \in AutoWords : CaseVariant(methodArg, w)
UnrecognizedDirective ==
    ~ EventDirective /\ ~ IntervalDirective /\ ~ AutoDirective

HasLabelColumn(cols) == \E i \in 1..Len(cols) : Contains(Label, cols[i])

\* Some column name of the input, of any epoch of a collection, contains
\* "Label".
AnyLabelColumn ==
    \/ data.kind = "DataFrame" /\ HasLabelColumn(data.columns)
    \/ /\ data.kind = "dict"
       /\ \E i \in 1..Len(data.epochs) : HasLabelColumn(data.epochs[i].columns)

EventCall == [fn |-> "emg_eventrelated", arg |-> data]
IntervalCall == [fn |-> "emg_intervalrelated", arg |-> data]

(***************************************************************************)
(* C1.  With directive auto, a DataFrame or a non-empty dict and any       *)
(* sampling rate, the call delegates exactly once: to                      *)
(* emg_intervalrelated when row_count / sampling_rate >= 10 (10 included)  *)
(* and to emg_eventrelated when it is < 10.  For a dict the row count is   *)
(* that of the epoch the computed duration comes from (see C8).            *)
(***************************************************************************)
RowCount ==
    IF data.kind = "dict" THEN data.epochs[Len(data.epochs)].rows ELSE data.rows

SupportedInput ==
    \/ data.kind = "DataFrame"
    \/ data.kind = "dict" /\ Len(data.epochs) > 0

C1_AutoThreshold ==
    (AutoDirective /\ SupportedInput /\ Terminal) =>
        calls = << IF RowCount >= 10 * sampling_rate
                   THEN IntervalCall ELSE EventCall >>

\* A table of exactly 10 seconds went to emg_intervalrelated.
C1_Witness ==
    /\ AutoDirective
    /\ data.kind = "DataFrame"
    /\ data.rows = 10 * sampling_rate
    /\ pc = "done"
    /\ calls = <<IntervalCall>>

(***************************************************************************)
(* C2.  With an explicit directive the strategy is fixed by the directive  *)
(* up to letter case, whatever the length of the data and the sampling     *)
(* rate: a case variant of event-related, event or epoch takes the         *)
(* event-related path (it delegates to emg_eventrelated or fails in that   *)
(* path's sanity check) and a case variant of interval-related, interval   *)
(* or resting-state delegates to emg_intervalrelated.                      *)
(***************************************************************************)
C2_ExplicitDirective ==
    Terminal =>
        /\ EventDirective =>
              \/ calls = <<EventCall>>
              \/ /\ calls = << >>
                 /\ pc = "raised"
                 /\ error \in {MarkerValueError, UnboundLocalError("colnames")}
        /\ IntervalDirective => calls = <<IntervalCall>>

\* An upper-case interval directive on a table shorter than 10 seconds.
C2_Witness ==
    /\ IntervalDirective
    /\ methodArg \notin IntervalWords
    /\ data.kind = "DataFrame"
    /\ data.rows < 10 * sampling_rate
    /\ pc = "done"
    /\ calls = <<IntervalCall>>

(***************************************************************************)
(* C3.  With an event-related directive and a DataFrame: no column name    *)
(* containing "Label" gives the ValueError and no strategy is invoked; a   *)
(* column name containing "Label" gives no ValueError and the call         *)
(* delegates to emg_eventrelated.                                          *)
(***************************************************************************)
C3_MarkerColumn ==
    (EventDirective /\ data.kind = "DataFrame" /\ Terminal) =>
        IF HasLabelColumn(data.columns)
        THEN calls = <<EventCall>> /\ error # MarkerValueError
        ELSE calls = << >> /\ pc = "raised" /\ error = MarkerValueError

\* Both cases, the second column being the marker.
C3_Witness ==
    /\ EventDirective
    /\ data.kind = "DataFrame"
    /\ data.columns = <<EMG_Amplitude, Label>>
    /\ pc = "done"
    /\ calls = <<EventCall>>

(***************************************************************************)
(* C4.  A directive outside the recognized set (up to letter case) makes   *)
(* the call fail with an explicit Unrecognized-Method failure, whatever    *)
(* the input, with no strategy invoked and no result returned.  An         *)
(* UnboundLocalError from reading a local that was never assigned is not   *)
(* an explicit failure.                                                    *)
(***************************************************************************)
C4_UnrecognizedMethod ==
    (UnrecognizedDirective /\ Terminal) =>
        /\ pc = "raised"
        /\ calls = << >>
        /\ error.type # "UnboundLocalError"

(***************************************************************************)
(* C5.  emg_eventrelated is never invoked on an input none of whose column *)
(* names contains "Label", also when auto selected it.                     *)
(***************************************************************************)
C5_ValidateBeforeEvent ==
    \A i \in 1..Len(calls) :
        calls[i].fn = "emg_eventrelated" => AnyLabelColumn

(***************************************************************************)
(* C6.  A call that delegates passes the caller's data itself, never       *)
(* changes it, returns exactly what the strategy returned, and lets what   *)
(* the strategy raised reach the caller; a call returns only a strategy's  *)
(* result.                                                                 *)
(***************************************************************************)
C6_Delegation ==
    /\ \A i \in 1..Len(calls) : calls[i].arg = data
    /\ pc = "done" => calls # << >>
    /\ (Terminal /\ calls # << >>) =>
          /\ outcome.kind = "return" =>
                pc = "done" /\ result = Bound(outcome.value)
          /\ outcome.kind = "raise" =>
                /\ pc = "raised"
                /\ error = [type |-> outcome.value, detail |-> calls[Len(calls)].fn]
                /\ result = Unbound

C6_TransparentDelegation == [] C6_Delegation /\ [][data' = data]_vars

\* The strategy raised on a collection and the caller got that error.
C6_Witness ==
    /\ data.kind = "dict"
    /\ pc = "raised"
    /\ outcome.kind = "raise"
    /\ calls = <<IntervalCall>>
    /\ error.type = "KeyError"

(***************************************************************************)
(* C7.  An input that is neither a DataFrame nor a dict makes the call     *)
(* fail for every directive, and no strategy is invoked.                   *)
(***************************************************************************)
C7_UnsupportedInput ==
    data.kind = "other" =>
        /\ calls = << >>
        /\ pc # "done"

C9_FullColumnSet ==
    (EventDirective /\ data.kind = "dict" /\ Terminal) =>
        (calls = <<EventCall>> <=> AnyLabelColumn)

(***************************************************************************)
(* C10.  A call is a single pass: it invokes at most one strategy, once;   *)
(* it ends returning a result or raising an error, and never both; once    *)
(* it has ended nothing more happens, so no failure is followed by a       *)
(* delegation; and it always ends, an empty dict included.                 *)
(***************************************************************************)
C10_State ==
    /\ Len(calls) <= 1
    /\ pc = "done" => result.bound /\ error = NoError
    /\ pc = "raised" => error # NoError /\ ~ result.bound
    /\ error # NoError => pc = "raised"

C10_SinglePass ==
    /\ [] C10_State
    /\ [][~ Terminal]_vars
    /\ <> Terminal

\* The call on an empty dict has ended, in an error, with nothing invoked.
C10_Witness ==
    /\ data.kind = "dict"
    /\ Len(data.epochs) = 0
    /\ pc = "raised"
    /\ calls = << >>

====
